---------------------------- MODULE Spec2Model ----------------------------
(***************************************************************************)
(* Model of the real-time audio engine of multimodal-live-api-web-console: *)
(*   - AudioRecorder (Capture Pipeline), src/src/hooks/use-live-api.ts     *)
(*   - AudioStreamer (Playback Scheduler), src/src/lib/audio-streamer.ts   *)
(* Every async function is cut at its awaits: the code between two awaits  *)
(* runs to completion on the single-threaded event loop and is one action. *)
(***************************************************************************)
EXTENDS Integers, Sequences, FiniteSets

(***************************************************************************)
(* Bounds of the model.                                                    *)
(***************************************************************************)
MaxStarts == 2        \* start() calls made on the recorder
MaxStops == 2         \* stop() calls made on the recorder
MaxStreams == 3       \* hardware streams getUserMedia hands out
MaxRestarts == 3      \* restartStream() invocations
MaxChunks == 3        \* addPCM16() calls made on the streamer
MaxPending == 2       \* calls parked at their first await when another call is made
MaxTimers == 2        \* one-shot timers of the streamer alive at once
MaxClock == 8         \* last reading of the device clock
MaxControls == 2      \* complete(), resume() and stop() calls on the streamer
ScenarioClock == 12   \* last reading of the device clock in the chunk scenario
LiveClock == 10       \* last reading of the device clock in the fair runs
bufferSize == 4       \* samples per frame (7680 in the code, scaled down)

(***************************************************************************)
(* Time is counted in ticks of 50 ms; a frame of bufferSize samples stands  *)
(* for the 7680 samples of the code, which play for 320 ms at 24 kHz.      *)
(***************************************************************************)
initialBufferTime == 2     \* 0.1 s
SCHEDULE_AHEAD_TIME == 4   \* 0.2 s
TimerMargin == 1           \* the 50 ms taken off the one-shot timer
FrameTicks == 6            \* playing time of a full frame, 0.32 s

StartIds == 1..MaxStarts

\* addWorklet() calls in a run, and audioContext() calls in a run
MaxAdds == 3
MaxAcquires == 3
\* the delay of the gain-stage replacement in stop(): 200 ms, in clock ticks
GainDelay == 4
\* names a real-time unit is registered under
WorkletNames == {"vumeter-out", "vumeter-aux"}
\* the id option of audioContext(): absent, or the id of the output context
ContextIds == {"", "audio-out"}
AddIds == 1..MaxAdds
AcquireIds == 1..MaxAcquires

VARIABLES
  \* ---- AudioRecorder fields (0 stands for undefined / null)
  stream,              \* this.stream: id of the MediaStream held, 0 if none
  audioContext,        \* this.audioContext: TRUE when a context is held
  source,              \* this.source: id of the stream the node reads, 0 if none
  recording,           \* this.recording
  recordingWorklet,    \* this.recordingWorklet is set
  vuWorklet,           \* this.vuWorklet is set
  starting,            \* this.starting: id of the start() call whose promise it holds
  streamCheckInterval, \* this.streamCheckInterval holds a timer handle
  \* ---- platform state the recorder acts on
  tracks,              \* per opened stream: its audio track
  intervals,           \* setInterval timers of the recorder still alive
  \* ---- positions of the recorder's async functions
  startPc,             \* per start() call: the await it is parked at
  stopPc,              \* the stop() call in progress: the await it is parked at
  stopAwait,           \* the start() call whose promise stop() awaits
  stopCalls,           \* stop() calls made so far
  restartPending,      \* restartStream() executions awaiting getUserMedia
  restartCalls,        \* restartStream() invocations so far
  errors,              \* 'error' notifications emitted
  \* ---- history of the run, for the properties
  overlap,             \* pairs <<j, i>>: start() i was called while j was in flight
  watch,               \* restarts and health ticks since a track was muted
  \* ---- AudioStreamer fields
  audioQueue,          \* this.audioQueue: frames, each a sequence of samples
  processingBuffer,    \* this.processingBuffer: samples short of a frame
  isPlaying,           \* this.isPlaying
  isStreamComplete,    \* this.isStreamComplete
  scheduledTime,       \* this.scheduledTime
  checkInterval,       \* this.checkInterval holds the poll timer
  endOfQueueAudioSource, \* the source held, NoSource if null
  \* ---- platform state the streamer acts on
  now,                 \* context.currentTime
  lastSource,          \* the buffer source started last
  onended,             \* the onended handler of the source held is still to run
  timers,              \* due times of the pending setTimeout callbacks
  pending,             \* async calls parked at `await ensureAudioContextRunning()`
  \* ---- history of the run, for the properties
  bytesIn,             \* bytes handed to addPCM16 so far
  chunksIn,            \* addPCM16() calls so far
  controls,            \* complete(), resume() and stop() calls so far
  fired,               \* the onComplete invocations of the session
  run,                 \* the frames started since scheduledTime was last set
  emitted,             \* frames addPCM16 queued since the last flush or stop
  arrived,             \* chunks handed to addPCM16 since the last flush or stop
  finalFrame,          \* the frame complete() flushed: first sample, end of play
  order,               \* what went wrong in the order of the frames started
  session,             \* stop()/resume() history: phase and bytes seen at stop()
  \* ---- AudioStreamer: real-time units and the gain stage
  worklets,            \* this.worklets: per name the node held (0: none) and its handler
  installed,           \* per name: modules installed on the device by addModule()
  adding,              \* per addWorklet() call: the await it is parked at, its name
  gainNode,            \* this.gainNode: id of the gain stage held
  gainTimers,          \* due times of the replacement timers stop() armed
  wired,               \* a frame started since the last stop() is connected to it
  \* ---- audioContext() of utils
  map,                 \* the module's map: handle stored under "audio-out", 0 if none
  hasUserInteraction,  \* the first interaction has resolved userInteractionPromise
  contexts,            \* AudioContext objects constructed so far
  acquire              \* per audioContext() call: the await it is parked at, id, handle

recVars == <<stream, audioContext, source, recording, recordingWorklet,
             vuWorklet, starting, streamCheckInterval, tracks, intervals,
             startPc, stopPc, stopAwait, stopCalls, restartPending,
             restartCalls, errors, overlap, watch>>

strVars == <<audioQueue, processingBuffer, isPlaying, isStreamComplete,
             scheduledTime, checkInterval, endOfQueueAudioSource, now,
             lastSource, onended, timers, pending, bytesIn, chunksIn,
             controls, fired, run, emitted, arrived, finalFrame, order,
             session>>

wkVars == <<worklets, installed, adding>>
gainVars == <<gainNode, gainTimers, wired>>
ctxVars == <<map, hasUserInteraction, contexts, acquire>>
devVars == <<wkVars, ctxVars>>

vars == <<recVars, strVars, devVars, gainVars>>

(***************************************************************************)
(* AudioRecorder                                                           *)
(***************************************************************************)
NoWatch == [on |-> FALSE, ticks |-> 0, restarts |-> 0]

RecInit ==
  /\ stream = 0
  /\ audioContext = FALSE
  /\ source = 0
  /\ recording = FALSE
  /\ recordingWorklet = FALSE
  /\ vuWorklet = FALSE
  /\ starting = 0
  /\ streamCheckInterval = FALSE
  /\ tracks = << >>
  /\ intervals = 0
  /\ startPc = [i \in StartIds |-> "idle"]
  /\ stopPc = "idle"
  /\ stopAwait = 0
  /\ stopCalls = 0
  /\ restartPending = 0
  /\ restartCalls = 0
  /\ errors = 0
  /\ overlap = {}
  /\ watch = NoWatch

InFlight(i) == startPc[i] \in {"gum", "ctx", "mod1", "mod2"}
Settled(i) == startPc[i] \in {"resolved", "rejected"}

\* getUserMedia resolving: a fresh stream with one live audio track.
NewTrack(h) == [readyState |-> "live", muted |-> FALSE, handlers |-> h]

\* stream.getTracks().forEach(track => track.stop())
StopTracks(tr, s) ==
  IF s = 0 THEN tr ELSE [tr EXCEPT ![s].readyState = "ended"]

\* the test of checkStreamHealth on the one audio track of a stream
Unhealthy(t) == t.muted \/ t.readyState = "ended"

\* bookkeeping of the mute watch: n restartStream() invocations, k health ticks
Watched(w, n, k) ==
  IF w.on
  THEN [w EXCEPT !.restarts = IF @ + n > 3 THEN 3 ELSE @ + n,
                 !.ticks = IF @ + k > 2 THEN 2 ELSE @ + k]
  ELSE w

\* restartStream(), up to its await: stop the tracks held, request a stream
\* (tr: the tracks as the event that invokes it left them)
restartStream(tr) ==
  /\ restartCalls < MaxRestarts
  /\ tracks' = StopTracks(tr, stream)
  /\ restartPending' = restartPending + 1
  /\ restartCalls' = restartCalls + 1

\* restartStream(), getUserMedia resolved
RestartResolve ==
  /\ restartPending > 0
  /\ Len(tracks) < MaxStreams
  /\ tracks' = Append(tracks, NewTrack(FALSE))
  /\ stream' = Len(tracks) + 1
  /\ source' = IF audioContext /\ source # 0 THEN Len(tracks) + 1 ELSE source
  /\ restartPending' = restartPending - 1
  /\ UNCHANGED <<strVars, devVars, gainVars, audioContext, recording, recordingWorklet, vuWorklet,
                 starting, streamCheckInterval, intervals, startPc, stopPc,
                 stopAwait, stopCalls, restartCalls, errors, overlap, watch>>

\* a failed restart that is swallowed without the 'error' notification
RestartRejectSilent ==
  /\ restartPending > 0
  /\ restartPending' = restartPending - 1
  /\ UNCHANGED <<strVars, devVars, gainVars, stream, audioContext, source, recording, recordingWorklet,
                 vuWorklet, starting, streamCheckInterval, tracks, intervals,
                 startPc, stopPc, stopAwait, stopCalls, restartCalls, errors,
                 overlap, watch>>

\* restartStream(), getUserMedia rejected: logged and emitted as 'error'
RestartReject ==
  /\ restartPending > 0
  /\ restartPending' = restartPending - 1
  /\ errors' = errors + 1
  /\ UNCHANGED <<strVars, devVars, gainVars, stream, audioContext, source, recording, recordingWorklet,
                 vuWorklet, starting, streamCheckInterval, tracks, intervals,
                 startPc, stopPc, stopAwait, stopCalls, restartCalls,
                 overlap, watch>>

\* the periodic health check, one interval timer firing
checkStreamHealth ==
  /\ intervals > 0
  /\ IF stream # 0 /\ Unhealthy(tracks[stream])
     THEN /\ restartStream(tracks)
          /\ watch' = Watched(watch, 1, 1)
     ELSE /\ watch' = Watched(watch, 0, 1)
          /\ UNCHANGED <<tracks, restartPending, restartCalls>>
  /\ UNCHANGED <<strVars, devVars, gainVars, stream, audioContext, source, recording, recordingWorklet,
                 vuWorklet, starting, streamCheckInterval, intervals, startPc,
                 stopPc, stopAwait, stopCalls, errors, overlap>>

\* the device mutes a live track; start()'s 'mute' listener restarts
TrackMuted(s) ==
  /\ s \in 1..Len(tracks)
  /\ tracks[s].readyState = "live"
  /\ ~tracks[s].muted
  /\ LET w == IF recording /\ stream = s /\ ~watch.on
              THEN [on |-> TRUE, ticks |-> 0, restarts |-> 0]
              ELSE watch
     IN IF tracks[s].handlers
        THEN /\ restartStream([tracks EXCEPT ![s].muted = TRUE])
             /\ watch' = Watched(w, 1, 0)
        ELSE /\ tracks' = [tracks EXCEPT ![s].muted = TRUE]
             /\ watch' = w
             /\ UNCHANGED <<restartPending, restartCalls>>
  /\ UNCHANGED <<strVars, devVars, gainVars, stream, audioContext, source, recording, recordingWorklet,
                 vuWorklet, starting, streamCheckInterval, intervals, startPc,
                 stopPc, stopAwait, stopCalls, errors, overlap>>

\* the device ends a live track; start()'s onended handler restarts
TrackEnded(s) ==
  /\ s \in 1..Len(tracks)
  /\ tracks[s].readyState = "live"
  /\ IF tracks[s].handlers
     THEN /\ restartStream([tracks EXCEPT ![s].readyState = "ended"])
          /\ watch' = Watched(watch, 1, 0)
     ELSE /\ tracks' = [tracks EXCEPT ![s].readyState = "ended"]
          /\ UNCHANGED <<restartPending, restartCalls, watch>>
  /\ UNCHANGED <<strVars, devVars, gainVars, stream, audioContext, source, recording, recordingWorklet,
                 vuWorklet, starting, streamCheckInterval, intervals, startPc,
                 stopPc, stopAwait, stopCalls, errors, overlap>>

\* start(): the promise executor up to `await getUserMedia`, then
\* this.starting = the new promise
StartCall(i) ==
  /\ startPc[i] = "idle"
  /\ \A j \in StartIds : j < i => startPc[j] # "idle"
  /\ startPc' = [startPc EXCEPT ![i] = "gum"]
  /\ starting' = i
  /\ overlap' = overlap \cup {<<j, i>> : j \in {k \in StartIds : InFlight(k)}}
  /\ UNCHANGED <<strVars, devVars, gainVars, stream, audioContext, source, recording, recordingWorklet,
                 vuWorklet, streamCheckInterval, tracks, intervals, stopPc,
                 stopAwait, stopCalls, restartPending, restartCalls, errors,
                 watch>>

\* catch + finally of start(): reject(error); this.starting = null
StartFail(i) ==
  /\ startPc' = [startPc EXCEPT ![i] = "rejected"]
  /\ starting' = 0

\* getUserMedia resolved: keep the stream, install the track handlers,
\* ask for the device context
StartGumResolve(i) ==
  /\ startPc[i] = "gum"
  /\ Len(tracks) < MaxStreams
  /\ tracks' = Append(tracks, NewTrack(TRUE))
  /\ stream' = Len(tracks) + 1
  /\ startPc' = [startPc EXCEPT ![i] = "ctx"]
  /\ UNCHANGED <<strVars, devVars, gainVars, audioContext, source, recording, recordingWorklet, vuWorklet,
                 starting, streamCheckInterval, intervals, stopPc, stopAwait,
                 stopCalls, restartPending, restartCalls, errors, overlap,
                 watch>>

\* an awaited step of start() rejected (getUserMedia, audioContext(),
\* resume(), addModule)
StartReject(i) ==
  /\ InFlight(i)
  /\ StartFail(i)
  /\ UNCHANGED <<strVars, devVars, gainVars, stream, audioContext, source, recording, recordingWorklet,
                 vuWorklet, streamCheckInterval, tracks, intervals, stopPc,
                 stopAwait, stopCalls, restartPending, restartCalls, errors,
                 overlap, watch>>

\* audioContext() resolved: keep it, create the source from this.stream
\* (a TypeError when stop() has unset the stream), install the recorder unit
StartCtxResolve(i) ==
  /\ startPc[i] = "ctx"
  /\ audioContext' = TRUE
  /\ IF stream = 0
     THEN /\ StartFail(i)
          /\ UNCHANGED source
     ELSE /\ source' = stream
          /\ startPc' = [startPc EXCEPT ![i] = "mod1"]
          /\ UNCHANGED starting
  /\ UNCHANGED <<strVars, devVars, gainVars, stream, recording, recordingWorklet, vuWorklet,
                 streamCheckInterval, tracks, intervals, stopPc, stopAwait,
                 stopCalls, restartPending, restartCalls, errors, overlap,
                 watch>>

\* addModule(recorder) resolved: new AudioWorkletNode(this.audioContext, ..)
\* (throws when stop() has unset the context), connect, install the meter
StartMod1Resolve(i) ==
  /\ startPc[i] = "mod1"
  /\ IF ~audioContext
     THEN /\ StartFail(i)
          /\ UNCHANGED recordingWorklet
     ELSE /\ recordingWorklet' = TRUE
          /\ startPc' = [startPc EXCEPT ![i] = "mod2"]
          /\ UNCHANGED starting
  /\ UNCHANGED <<strVars, devVars, gainVars, stream, audioContext, source, recording, vuWorklet,
                 streamCheckInterval, tracks, intervals, stopPc, stopAwait,
                 stopCalls, restartPending, restartCalls, errors, overlap,
                 watch>>

\* addModule(meter) resolved: the meter node, recording = true, the health
\* timer, resolve(); finally this.starting = null
StartMod2Resolve(i) ==
  /\ startPc[i] = "mod2"
  /\ IF ~audioContext
     THEN /\ StartFail(i)
          /\ UNCHANGED <<vuWorklet, recording, intervals, streamCheckInterval>>
     ELSE /\ vuWorklet' = TRUE
          /\ recording' = TRUE
          /\ intervals' = intervals + 1
          /\ streamCheckInterval' = TRUE
          /\ startPc' = [startPc EXCEPT ![i] = "resolved"]
          /\ starting' = 0
  /\ UNCHANGED <<strVars, devVars, gainVars, stream, audioContext, source, recordingWorklet, tracks,
                 stopPc, stopAwait, stopCalls, restartPending, restartCalls,
                 errors, overlap, watch>>

\* the finally block of stop()
StopReset ==
  /\ stream' = 0
  /\ recordingWorklet' = FALSE
  /\ vuWorklet' = FALSE
  /\ audioContext' = FALSE
  /\ recording' = FALSE
  /\ stopPc' = "idle"
  /\ stopAwait' = 0

\* stop() from the disconnects on: parks at `await audioContext.close()`
\* when a context is held, else stops the tracks and resets
StopTeardown ==
  IF audioContext
  THEN /\ stopPc' = "close"
       /\ stopAwait' = 0
       /\ UNCHANGED <<stream, audioContext, recording, recordingWorklet,
                      vuWorklet, tracks>>
  ELSE /\ tracks' = StopTracks(tracks, stream)
       /\ StopReset

\* stop(): cancel the health timer; await this.starting when set
StopCall ==
  /\ stopPc = "idle"
  /\ stopCalls < MaxStops
  /\ stopCalls' = stopCalls + 1
  /\ streamCheckInterval' = FALSE
  /\ intervals' = IF streamCheckInterval THEN intervals - 1 ELSE intervals
  /\ IF starting # 0
     THEN /\ stopPc' = "start"
          /\ stopAwait' = starting
          /\ UNCHANGED <<stream, audioContext, recording, recordingWorklet,
                         vuWorklet, tracks>>
     ELSE StopTeardown
  /\ watch' = NoWatch
  /\ UNCHANGED <<strVars, devVars, gainVars, source, starting, startPc, restartPending, restartCalls,
                 errors, overlap>>

\* stop(): the awaited start() settled; a rejection lands in catch/finally
StopAfterStart ==
  /\ stopPc = "start"
  /\ Settled(stopAwait)
  /\ IF startPc[stopAwait] = "rejected"
     THEN /\ StopReset
          /\ UNCHANGED tracks
     ELSE StopTeardown
  /\ UNCHANGED <<strVars, devVars, gainVars, source, starting, streamCheckInterval, intervals, startPc,
                 stopCalls, restartPending, restartCalls, errors, overlap,
                 watch>>

\* stop(): close() settled; ok = FALSE is close() raising an error
StopAfterClose(ok) ==
  /\ stopPc = "close"
  /\ tracks' = IF ok THEN StopTracks(tracks, stream) ELSE tracks
  /\ StopReset
  /\ UNCHANGED <<strVars, devVars, gainVars, source, starting, streamCheckInterval, intervals, startPc,
                 stopCalls, restartPending, restartCalls, errors, overlap,
                 watch>>

RecNext ==
  \/ \E i \in StartIds : StartCall(i)
  \/ \E i \in StartIds : StartGumResolve(i)
  \/ \E i \in StartIds : StartReject(i)
  \/ \E i \in StartIds : StartCtxResolve(i)
  \/ \E i \in StartIds : StartMod1Resolve(i)
  \/ \E i \in StartIds : StartMod2Resolve(i)
  \/ StopCall
  \/ StopAfterStart
  \/ \E ok \in BOOLEAN : StopAfterClose(ok)
  \/ checkStreamHealth
  \/ \E s \in 1..MaxStreams : TrackMuted(s)
  \/ \E s \in 1..MaxStreams : TrackEnded(s)
  \/ RestartResolve
  \/ RestartReject

(***************************************************************************)
(* AudioStreamer                                                           *)
(***************************************************************************)
Max(a, b) == IF a >= b THEN a ELSE b
Min(a, b) == IF a <= b THEN a ELSE b

RECURSIVE Flatten(_)
Flatten(ss) == IF ss = << >> THEN << >> ELSE Head(ss) \o Flatten(Tail(ss))

RECURSIVE SelectKind(_, _)
SelectKind(items, k) ==
  IF items = << >> THEN << >>
  ELSE IF Head(items).kind = k
       THEN <<Head(items)>> \o SelectKind(Tail(items), k)
       ELSE SelectKind(Tail(items), k)

\* the chunks of the addPCM16() calls still parked at their await
PendingChunks == SelectKind(pending, "ingest")

NoFire ==
  [n |-> 0, marks |-> 0, flag |-> TRUE, queued |-> 0, buffered |-> 0,
   early |-> FALSE]
NewRun(t) == [t0 |-> t, n |-> 0, full |-> TRUE, late |-> FALSE]
PassItem == [kind |-> "pass", first |-> 0, len |-> 0]
NoSource == [id |-> -1, start |-> -1, finish |-> -1]
NoFinal == [id |-> -1, finish |-> -1]

\* no node is held under the name
NoWorklet == [node |-> 0, handler |-> 0]

DevInit ==
  /\ worklets = [n \in WorkletNames |-> NoWorklet]
  /\ installed = [n \in WorkletNames |-> 0]
  /\ adding = [c \in AddIds |-> [pc |-> "idle", name |-> ""]]
  /\ gainNode = 0
  /\ gainTimers = << >>
  /\ wired = FALSE
  /\ map = 0
  /\ hasUserInteraction = FALSE
  /\ contexts = 0
  /\ acquire = [c \in AcquireIds |-> [pc |-> "idle", id |-> "", ctx |-> 0]]

StrInit ==
  /\ audioQueue = << >>
  /\ processingBuffer = << >>
  /\ isPlaying = FALSE
  /\ isStreamComplete = FALSE
  /\ scheduledTime = 0
  /\ checkInterval = FALSE
  /\ endOfQueueAudioSource = NoSource
  /\ now = 0
  /\ lastSource = NoSource
  /\ onended = FALSE
  /\ timers = << >>
  /\ pending = << >>
  /\ bytesIn = 0
  /\ chunksIn = 0
  /\ controls = 0
  /\ fired = NoFire
  /\ run = NewRun(0)
  /\ emitted = << >>
  /\ arrived = << >>
  /\ finalFrame = NoFinal
  /\ order = [backward |-> FALSE, swapped |-> FALSE, stale |-> FALSE]
  /\ session = [phase |-> "fresh", bytes |-> 0, at |-> 0]

\* a conversion that takes every byte for a sample
ConvertBytes(chunk) == [i \in 1..chunk.len |-> chunk.first + (i - 1)]

\* A sample is named by the position, in the bytes handed to addPCM16 so
\* far, of the first of the two bytes it is read from.  A chunk of len bytes
\* yields a Float32Array of floor(len / 2) samples: getInt16 on a trailing
\* odd byte throws, is logged, and the byte is dropped.
Convert(chunk) ==
  [i \in 1..(chunk.len \div 2) |-> chunk.first + 2 * (i - 1)]

\* a cut that takes one frame and stops: an `if` in place of the `while`
SliceOnce(q, buf) ==
  IF Len(buf) >= bufferSize
  THEN [queue |-> Append(q, SubSeq(buf, 1, bufferSize)),
        buffer |-> SubSeq(buf, bufferSize + 1, Len(buf))]
  ELSE [queue |-> q, buffer |-> buf]

\* a cut that leaves a whole frame behind: `>` in place of `>=`
RECURSIVE SliceLoose(_, _)
SliceLoose(q, buf) ==
  IF Len(buf) > bufferSize
  THEN SliceLoose(Append(q, SubSeq(buf, 1, bufferSize)),
                  SubSeq(buf, bufferSize + 1, Len(buf)))
  ELSE [queue |-> q, buffer |-> buf]

\* while (processingBuffer.length >= bufferSize) { push slice; keep rest }
RECURSIVE Slice(_, _)
Slice(q, buf) ==
  IF Len(buf) >= bufferSize
  THEN Slice(Append(q, SubSeq(buf, 1, bufferSize)),
             SubSeq(buf, bufferSize + 1, Len(buf)))
  ELSE [queue |-> q, buffer |-> buf]

\* audioBuffer.duration of a frame
Duration(frame) == (Len(frame) * FrameTicks) \div bufferSize

\* a start time that follows the device clock and forgets scheduledTime
StartTimeNow(sT, t) == t

\* Math.max(this.scheduledTime, this.context.currentTime)
StartTime(sT, t) == Max(sT, t)

\* the frame complete() flushed is still queued or still playing
Unfinished(ff) == ff.id # -1 /\ (ff.finish = -1 \/ ff.finish > now)

\* onComplete(): the record of the invocation
OnComplete(flag, q, buf) ==
  [n |-> Min(fired.n + 1, 2), marks |-> fired.marks, flag |-> flag,
   queued |-> Len(q), buffered |-> Len(buf),
   early |-> Unfinished(finalFrame)]

\* the while loop of scheduleNextBuffer at clock reading `now`
RECURSIVE Drain(_)
Drain(st) ==
  IF st.queue # << >> /\ st.sT < now + SCHEDULE_AHEAD_TIME
  THEN LET frame == Head(st.queue)
           rest == Tail(st.queue)
           startTime == StartTime(st.sT, now)
           src == [id |-> frame[1], start |-> startTime,
                   finish |-> startTime + Duration(frame)]
       IN Drain([queue |-> rest,
                 sT |-> startTime + Duration(frame),
                 last |-> src,
                 eoq |-> IF rest = << >> THEN src ELSE st.eoq,
                 armed |-> IF rest = << >> THEN TRUE ELSE st.armed,
                 final |-> IF st.final.id = src.id
                           THEN [st.final EXCEPT !.finish = src.finish]
                           ELSE st.final,
                 run |-> [st.run EXCEPT
                            !.n = @ + 1,
                            !.full = @ /\ Len(frame) = bufferSize,
                            !.late = @ \/ now > st.sT],
                 order |-> [backward |-> st.order.backward
                                         \/ src.start < st.last.start,
                            swapped |-> st.order.swapped
                                        \/ src.id < st.last.id,
                            stale |-> st.order.stale
                                      \/ (session.phase = "resumed"
                                          /\ src.id < session.bytes)]])
  ELSE st

\* a timer queue that drops the callback it is handed
InsertNone(ts, d) == ts

\* setTimeout delay of the one-shot re-schedule, as a due time
TimerDue(sT) == now + Max(0, (sT - now) - TimerMargin)

RECURSIVE Insert(_, _)
Insert(ts, d) ==
  IF ts = << >> THEN <<d>>
  ELSE IF d <= Head(ts) THEN <<d>> \o ts
       ELSE <<Head(ts)>> \o Insert(Tail(ts), d)

Remove(ts, k) == SubSeq(ts, 1, k - 1) \o SubSeq(ts, k + 1, Len(ts))

\* addPCM16(chunk), up to `await this.ensureAudioContextRunning()`
addPCM16(len) ==
  /\ chunksIn < MaxChunks
  /\ Len(pending) < MaxPending
  /\ pending' = Append(pending, [kind |-> "ingest", first |-> bytesIn, len |-> len])
  /\ arrived' = Append(arrived, [kind |-> "ingest", first |-> bytesIn, len |-> len])
  /\ bytesIn' = bytesIn + len
  /\ chunksIn' = chunksIn + 1
  /\ UNCHANGED <<recVars, devVars, gainVars, audioQueue, processingBuffer, isPlaying, isStreamComplete,
                 scheduledTime, checkInterval, endOfQueueAudioSource, now,
                 lastSource, onended, timers, controls, fired, run, emitted,
                 finalFrame, order, session>>

\* addPCM16(chunk) after the await: convert, append, cut into frames, and
\* start the scheduling when idle
addPCM16Body ==
  /\ pending # << >>
  /\ Head(pending).kind = "ingest"
  /\ LET cut == Slice(<< >>, processingBuffer \o Convert(Head(pending)))
     IN /\ audioQueue' = audioQueue \o cut.queue
        /\ processingBuffer' = cut.buffer
        /\ emitted' = emitted \o cut.queue
  /\ IF ~isPlaying
     THEN /\ isPlaying' = TRUE
          /\ scheduledTime' = now + initialBufferTime
          /\ run' = NewRun(now + initialBufferTime)
          /\ pending' = Append(Tail(pending), PassItem)
     ELSE /\ pending' = Tail(pending)
          /\ UNCHANGED <<isPlaying, scheduledTime, run>>
  /\ UNCHANGED <<recVars, devVars, gainVars, isStreamComplete, checkInterval, endOfQueueAudioSource, now,
                 lastSource, onended, timers, bytesIn, chunksIn, controls, fired,
                 arrived, finalFrame, order, session>>

\* scheduleNextBuffer() after its await: start the frames that are due, then
\* go idle, establish the poll, or arm the one-shot timer
scheduleNextBuffer ==
  /\ pending # << >>
  /\ Head(pending).kind = "pass"
  /\ pending' = Tail(pending)
  /\ LET d == Drain([queue |-> audioQueue, sT |-> scheduledTime,
                     last |-> lastSource, eoq |-> endOfQueueAudioSource,
                     armed |-> onended, final |-> finalFrame, run |-> run,
                     order |-> order])
     IN /\ audioQueue' = d.queue
        /\ scheduledTime' = d.sT
        /\ lastSource' = d.last
        /\ endOfQueueAudioSource' = d.eoq
        /\ onended' = d.armed
        /\ finalFrame' = d.final
        /\ run' = d.run
        /\ order' = d.order
        /\ IF d.queue = << >> /\ processingBuffer = << >>
           THEN /\ isPlaying' = IF isStreamComplete THEN FALSE ELSE isPlaying
                /\ checkInterval' = ~isStreamComplete
                /\ UNCHANGED timers
           ELSE /\ Len(timers) < MaxTimers
                /\ timers' = Insert(timers, TimerDue(d.sT))
                /\ UNCHANGED <<isPlaying, checkInterval>>
        /\ wired' = (wired \/ d.last # lastSource)
  /\ UNCHANGED <<recVars, devVars, gainNode, gainTimers, processingBuffer,
                 isStreamComplete, now, bytesIn,
                 chunksIn, controls, fired, emitted, arrived, session>>

\* a one-shot timer fires: () => this.scheduleNextBuffer(); a callback that
\* is due is never held back by the calls already parked
TimerFires(k) ==
  /\ k \in 1..Len(timers)
  /\ timers[k] <= now
  /\ timers' = Remove(timers, k)
  /\ pending' = Append(pending, PassItem)
  /\ UNCHANGED <<recVars, devVars, gainVars, audioQueue, processingBuffer, isPlaying, isStreamComplete,
                 scheduledTime, checkInterval, endOfQueueAudioSource, now,
                 lastSource, onended, bytesIn, chunksIn, controls, fired, run,
                 emitted, arrived, finalFrame, order, session>>

\* the poll timer fires with something to schedule
PollFires ==
  /\ checkInterval
  /\ audioQueue # << >> \/ Len(processingBuffer) >= bufferSize
  /\ Len(pending) < MaxPending
  /\ pending' = Append(pending, PassItem)
  /\ UNCHANGED <<recVars, devVars, gainVars, audioQueue, processingBuffer, isPlaying, isStreamComplete,
                 scheduledTime, checkInterval, endOfQueueAudioSource, now,
                 lastSource, onended, timers, bytesIn, chunksIn, controls, fired,
                 run, emitted, arrived, finalFrame, order, session>>

\* source.onended of the source armed as end of queue
SourceEnded ==
  /\ onended
  /\ endOfQueueAudioSource.finish <= now
  /\ onended' = FALSE
  /\ IF audioQueue = << >>
     THEN /\ endOfQueueAudioSource' = NoSource
          /\ fired' = OnComplete(isStreamComplete, audioQueue, processingBuffer)
     ELSE UNCHANGED <<endOfQueueAudioSource, fired>>
  /\ UNCHANGED <<recVars, devVars, gainVars, audioQueue, processingBuffer, isPlaying, isStreamComplete,
                 scheduledTime, checkInterval, now, lastSource, timers, pending,
                 bytesIn, chunksIn, controls, run, emitted, arrived,
                 finalFrame, order, session>>

\* complete()
complete ==
  /\ controls < MaxControls
  /\ controls' = controls + 1
  /\ isStreamComplete' = TRUE
  /\ IF processingBuffer # << >>
     THEN /\ audioQueue' = Append(audioQueue, processingBuffer)
          /\ processingBuffer' = << >>
          /\ finalFrame' = [id |-> processingBuffer[1], finish |-> -1]
          /\ emitted' = << >>
          /\ arrived' = PendingChunks
          /\ IF isPlaying
             THEN /\ Len(pending) < MaxPending
                  /\ pending' = Append(pending, PassItem)
             ELSE UNCHANGED pending
          /\ fired' = [fired EXCEPT !.marks = Min(@ + 1, 2)]
     ELSE /\ fired' = [OnComplete(TRUE, audioQueue, processingBuffer)
                         EXCEPT !.marks = Min(@ + 1, 2)]
          /\ UNCHANGED <<audioQueue, processingBuffer, finalFrame, emitted,
                         arrived, pending>>
  /\ UNCHANGED <<recVars, devVars, gainVars, isPlaying, scheduledTime, checkInterval,
                 endOfQueueAudioSource, now, lastSource, onended, timers,
                 bytesIn, chunksIn, run, order, session>>

\* resume(), up to `await this.ensureAudioContextRunning()`
resume ==
  /\ controls < MaxControls
  /\ Len(pending) < MaxPending
  /\ controls' = controls + 1
  /\ pending' = Append(pending, [kind |-> "resume", first |-> controls, len |-> 0])
  /\ UNCHANGED <<recVars, devVars, gainVars, audioQueue, processingBuffer, isPlaying, isStreamComplete,
                 scheduledTime, checkInterval, endOfQueueAudioSource, now,
                 lastSource, onended, timers, bytesIn, chunksIn, fired, run,
                 emitted, arrived, finalFrame, order, session>>

\* resume() after the await
resumeBody ==
  /\ pending # << >>
  /\ Head(pending).kind = "resume"
  /\ pending' = Tail(pending)
  /\ isStreamComplete' = FALSE
  /\ scheduledTime' = now + initialBufferTime
  /\ run' = NewRun(now + initialBufferTime)
  /\ fired' = NoFire
  /\ session' = IF session.phase = "stopped" /\ Head(pending).first >= session.at
                THEN [session EXCEPT !.phase = "resumed"]
                ELSE session
  /\ UNCHANGED <<recVars, devVars, gainVars, audioQueue, processingBuffer, isPlaying, checkInterval,
                 endOfQueueAudioSource, now, lastSource, onended, timers,
                 bytesIn, chunksIn, controls, emitted, arrived, finalFrame, order>>

\* stop()
stop ==
  /\ controls < MaxControls
  /\ controls' = controls + 1
  /\ isPlaying' = FALSE
  /\ isStreamComplete' = TRUE
  /\ audioQueue' = << >>
  /\ processingBuffer' = << >>
  /\ scheduledTime' = now
  /\ checkInterval' = FALSE
  /\ run' = NewRun(now)
  /\ fired' = NoFire
  /\ emitted' = << >>
  /\ arrived' = PendingChunks
  /\ finalFrame' = NoFinal
  /\ session' = [phase |-> "stopped", bytes |-> bytesIn, at |-> controls + 1]
  /\ worklets' = [n \in WorkletNames |-> NoWorklet]
  /\ gainTimers' = Append(gainTimers, now + GainDelay)
  /\ wired' = FALSE
  /\ UNCHANGED <<recVars, ctxVars, installed, adding, gainNode,
                 endOfQueueAudioSource, now, lastSource, onended,
                 timers, pending, bytesIn, chunksIn, order>>

\* the device clock advances, up to the last reading the run allows
Tick(limit) ==
  /\ now < limit
  /\ now' = now + 1
  /\ UNCHANGED <<recVars, devVars, gainVars, audioQueue, processingBuffer, isPlaying, isStreamComplete,
                 scheduledTime, checkInterval, endOfQueueAudioSource, lastSource,
                 onended, timers, pending, bytesIn, chunksIn, controls, fired,
                 run, emitted, arrived, finalFrame, order, session>>

\* the timer stop() armed fires: the gain stage held now is disconnected
\* and a new one takes its place
GainTimerFires ==
  /\ gainTimers # << >>
  /\ Head(gainTimers) <= now
  /\ gainTimers' = Tail(gainTimers)
  /\ gainNode' = gainNode + 1
  /\ wired' = FALSE
  /\ UNCHANGED <<recVars, strVars, devVars>>

\* addWorklet(name, src, handler), up to `await ensureAudioContextRunning()`
addWorklet(c, name) ==
  /\ adding[c].pc = "idle"
  /\ adding' = [adding EXCEPT ![c] = [pc |-> "ensure", name |-> name]]
  /\ UNCHANGED <<recVars, strVars, ctxVars, gainVars, worklets, installed>>

\* addWorklet() after the await: rebind the handler of the node held under
\* the name, or go on to `await audioWorklet.addModule(src)`
addWorkletBody(c) ==
  /\ adding[c].pc = "ensure"
  /\ IF worklets[adding[c].name].node # 0
     THEN /\ worklets' = [worklets EXCEPT ![adding[c].name].handler = c]
          /\ adding' = [adding EXCEPT ![c].pc = "done"]
     ELSE /\ adding' = [adding EXCEPT ![c].pc = "module"]
          /\ UNCHANGED worklets
  /\ UNCHANGED <<recVars, strVars, ctxVars, gainVars, installed>>

\* addModule() resolves: the module is installed on the device, the node is
\* created, bound, connected and stored under the name
addModuleResolve(c) ==
  /\ adding[c].pc = "module"
  /\ installed' = [installed EXCEPT ![adding[c].name] = @ + 1]
  /\ worklets' = [worklets EXCEPT ![adding[c].name] =
                    [node |-> installed[adding[c].name] + 1, handler |-> c]]
  /\ adding' = [adding EXCEPT ![c].pc = "done"]
  /\ UNCHANGED <<recVars, strVars, ctxVars, gainVars>>

\* addModule() rejects: the error is logged and thrown again
addModuleReject(c) ==
  /\ adding[c].pc = "module"
  /\ adding' = [adding EXCEPT ![c].pc = "failed"]
  /\ UNCHANGED <<recVars, strVars, ctxVars, gainVars, worklets, installed>>

\* the first user interaction resolves userInteractionPromise
handleUserInteraction ==
  /\ ~hasUserInteraction
  /\ hasUserInteraction' = TRUE
  /\ UNCHANGED <<recVars, strVars, wkVars, gainVars, map, contexts, acquire>>

\* audioContext(options), up to `await userInteractionPromise`
audioContextCall(c, id) ==
  /\ acquire[c].pc = "idle"
  /\ acquire' = [acquire EXCEPT ![c] = [pc |-> "gate", id |-> id, ctx |-> 0]]
  /\ UNCHANGED <<recVars, strVars, wkVars, gainVars, map, hasUserInteraction,
                 contexts>>

\* audioContext() after the gate: take the handle stored under the id, or
\* construct one; then `await unlockAudioContext(ctx)`
audioContextBody(c) ==
  /\ acquire[c].pc = "gate"
  /\ hasUserInteraction
  /\ IF acquire[c].id # "" /\ map # 0
     THEN /\ acquire' = [acquire EXCEPT ![c].pc = "unlockOld", ![c].ctx = map]
          /\ UNCHANGED contexts
     ELSE /\ contexts' = contexts + 1
          /\ acquire' = [acquire EXCEPT ![c].pc = "unlockNew",
                                        ![c].ctx = contexts + 1]
  /\ UNCHANGED <<recVars, strVars, wkVars, gainVars, map, hasUserInteraction>>

\* `new AudioContext()` throws: the error is logged and thrown again
audioContextFail(c) ==
  /\ acquire[c].pc = "gate"
  /\ hasUserInteraction
  /\ ~(acquire[c].id # "" /\ map # 0)
  /\ acquire' = [acquire EXCEPT ![c].pc = "failed"]
  /\ UNCHANGED <<recVars, strVars, wkVars, gainVars, map, hasUserInteraction,
                 contexts>>

\* unlockAudioContext() is over (its errors are swallowed): a handle that was
\* constructed is stored under the id, and the call returns its handle
audioContextUnlocked(c) ==
  /\ acquire[c].pc \in {"unlockOld", "unlockNew"}
  /\ acquire' = [acquire EXCEPT ![c].pc = "done"]
  /\ map' = IF acquire[c].pc = "unlockNew" /\ acquire[c].id # ""
            THEN acquire[c].ctx
            ELSE map
  /\ UNCHANGED <<recVars, strVars, wkVars, gainVars, hasUserInteraction,
                 contexts>>

\* chunk lengths in bytes: half a frame, a frame, two frames, and odd ones
ChunkLens == {1, bufferSize, bufferSize + 1, 2 * bufferSize, 4 * bufferSize}
\* chunk lengths in bytes: half a frame and a frame
FrameLens == {bufferSize, 2 * bufferSize}

\* the streamer fed, completed and resumed, never stopped
PlayNext(Lens) ==
  \/ \E len \in Lens : addPCM16(len)
  \/ addPCM16Body
  \/ scheduleNextBuffer
  \/ \E k \in 1..MaxTimers : TimerFires(k)
  \/ PollFires
  \/ SourceEnded
  \/ complete
  \/ resume
  \/ resumeBody
  \/ Tick(MaxClock)

\* the streamer with every call of its interface
StrNext(Lens) ==
  \/ PlayNext(Lens)
  \/ stop
  \/ GainTimerFires

Init == RecInit /\ StrInit /\ DevInit

\* the streamer at one reading of the device clock, fed chunks of every length
IngestNext ==
  \/ \E len \in ChunkLens : addPCM16(len)
  \/ addPCM16Body
  \/ scheduleNextBuffer
  \/ PollFires
  \/ complete
  \/ resume
  \/ resumeBody
  \/ stop

\* chunk lengths in bytes: a quarter and a half of a frame's samples
ScenarioLens == {bufferSize \div 2, bufferSize}

\* the producer hands over one more chunk of the length of the earlier ones
ScenarioChunk(len) ==
  /\ bytesIn = chunksIn * len
  /\ addPCM16(len)

\* the producer marks completion once three chunks are handed over
ScenarioComplete ==
  /\ chunksIn >= 3
  /\ complete

\* the streamer fed three or more chunks of one length and then completed,
\* never stopped or resumed
ScenarioNext ==
  \/ \E len \in ScenarioLens : ScenarioChunk(len)
  \/ addPCM16Body
  \/ scheduleNextBuffer
  \/ \E k \in 1..MaxTimers : TimerFires(k)
  \/ PollFires
  \/ SourceEnded
  \/ ScenarioComplete
  \/ Tick(ScenarioClock)

\* chunk lengths in bytes: a frame
FullLens == {2 * bufferSize}

\* the streamer fed full frames, completed at any moment, never stopped
LiveNext ==
  \/ \E len \in FullLens : addPCM16(len)
  \/ addPCM16Body
  \/ scheduleNextBuffer
  \/ \E k \in 1..MaxTimers : TimerFires(k)
  \/ PollFires
  \/ SourceEnded
  \/ complete
  \/ Tick(LiveClock)

\* the event loop runs every continuation and every timer callback that is
\* ready, sources end, and the device clock advances
Fairness ==
  /\ WF_vars(addPCM16Body)
  /\ WF_vars(scheduleNextBuffer)
  /\ WF_vars(\E k \in 1..MaxTimers : TimerFires(k))
  /\ WF_vars(PollFires)
  /\ WF_vars(SourceEnded)
  /\ WF_vars(Tick(LiveClock))

SpecScenario == Init /\ [][ScenarioNext]_vars
SpecLive == Init /\ [][LiveNext]_vars /\ Fairness

\* the recorder alone, the streamer alone, and the streamer's ingestion
SpecRecorder == Init /\ [][RecNext]_vars
SpecStreamer == Init /\ [][StrNext(FrameLens)]_vars
SpecIngest == Init /\ [][IngestNext]_vars
SpecPlay == Init /\ [][PlayNext(FrameLens)]_vars
SpecStop == Init /\ [][StrNext(FullLens)]_vars

\* the registry of real-time units of one streamer: registrations and stop()
WorkletNext ==
  \/ \E c \in AddIds, name \in WorkletNames : addWorklet(c, name)
  \/ \E c \in AddIds : addWorkletBody(c)
  \/ \E c \in AddIds : addModuleResolve(c)
  \/ \E c \in AddIds : addModuleReject(c)
  \/ stop

\* audioContext() of utils, called with and without an id
ContextNext ==
  \/ handleUserInteraction
  \/ \E c \in AcquireIds, id \in ContextIds : audioContextCall(c, id)
  \/ \E c \in AcquireIds : audioContextBody(c)
  \/ \E c \in AcquireIds : audioContextFail(c)
  \/ \E c \in AcquireIds : audioContextUnlocked(c)

SpecWorklets == Init /\ [][WorkletNext]_vars
SpecContext == Init /\ [][ContextNext]_vars

Next == StrNext(FrameLens)
Spec == Init /\ [][Next]_vars

(***************************************************************************)
(* Properties of the Capture Pipeline                                      *)
(***************************************************************************)

\* C1: start() is single-flight: at most one start attempt (one microphone
\* request) is in flight at a time, and start() calls that overlapped settle
\* with the same outcome.
C1_SingleFlight ==
  /\ Cardinality({i \in StartIds : InFlight(i)}) <= 1
  /\ \A p \in overlap :
       (Settled(p[1]) /\ Settled(p[2])) => startPc[p[1]] = startPc[p[2]]

\* C10: while recording, a track becoming muted triggers exactly one
\* restartStream() within one health-check interval, counting the mute
\* handler and the health tick together, and the pipeline still records.
C10_OneRestartPerMute ==
  watch.on =>
    /\ recording
    /\ watch.ticks <= 1 => watch.restarts <= 1
    /\ watch.ticks >= 1 => watch.restarts >= 1

\* the hardware streams opened so far whose track has not been stopped
LiveStreams == {s \in 1..Len(tracks) : tracks[s].readyState = "live"}

\* no hardware stream, source node, recording flag or health timer is held
CleanNotRecording ==
  /\ ~recording
  /\ stream = 0 \/ tracks[stream].readyState # "live"
  /\ source = 0
  /\ intervals = 0

\* every field of the session is unset
SessionEmpty ==
  /\ stream = 0
  /\ source = 0
  /\ ~recordingWorklet
  /\ ~vuWorklet
  /\ ~audioContext
  /\ ~recording

\* the step in which a stop() call completes (its finally block has run)
StopCompletes ==
  /\ stopPc' = "idle"
  /\ stopPc # "idle" \/ stopCalls' # stopCalls

\* a step of a restartStream() execution: its call, or its getUserMedia settling
RestartStep == restartCalls' # restartCalls \/ restartPending' # restartPending

\* start() has been called at most once
OneStart == \A i \in StartIds : i > 1 => startPc[i] = "idle"

\* C11: when an asynchronous step of start() fails, start() rejects and the
\* pipeline is left clean: not recording, no live hardware stream and no
\* source node held, no health-check timer running.
C11_CleanAfterFailedStart ==
  [][\A i \in StartIds :
       (InFlight(i) /\ startPc'[i] = "rejected") => CleanNotRecording']_vars

\* C12: whenever stop() completes, the hardware stream, the source node, the
\* recording unit, the metering unit and the device context are unset and
\* recording is false.
C12_StopEmptiesSession == [][StopCompletes => SessionEmpty']_vars

\* C13: whenever stop() completes, every hardware track the pipeline acquired
\* has been stopped, already when start() was called only once.
C13_StopReleasesTracks ==
  [][(StopCompletes /\ OneStart) => LiveStreams' = {}]_vars

\* C15: at no time are two restartStream() executions in progress, already
\* when start() was called only once.
C15_RestartsSerialized == OneStart => restartPending <= 1

\* C16: at most one live hardware stream acquired by the pipeline exists at a
\* time, already when no two start() calls overlap.
C16_OneOpenSession == overlap = {} => Cardinality(LiveStreams) <= 1

\* C17: whenever stop() completes, no health-check timer of the pipeline is
\* active.
C17_StopCancelsHealthTimer == [][StopCompletes => intervals' = 0]_vars

\* C18: a step of restartStream(), succeeding or failing, leaves the recording
\* flag, the recording unit, the metering unit and the device context
\* unchanged, and a failed restart is reported by one 'error' notification.
C18_RestartFrame ==
  [][RestartStep =>
       /\ UNCHANGED <<recording, recordingWorklet, vuWorklet, audioContext>>
       /\ (restartPending' < restartPending /\ stream' = stream)
            => errors' = errors + 1]_vars

\* a restart has failed and another has succeeded while recording
C18_Witness ==
  /\ recording
  /\ errors > 0
  /\ restartCalls >= 2
  /\ restartPending = 0
  /\ stream # 0 /\ ~tracks[stream].handlers

(***************************************************************************)
(* Properties of the Playback Scheduler                                    *)
(***************************************************************************)
\* the chunks whose addPCM16() has run, since the last flush or stop
Processed == SubSeq(arrived, 1, Len(arrived) - Len(PendingChunks))

\* their samples, concatenated in arrival order
Stream == Flatten([k \in 1..Len(Processed) |-> Convert(Processed[k])])

\* a sequence cut into its full blocks of bufferSize
Blocks(S) ==
  [k \in 1..(Len(S) \div bufferSize) |->
     SubSeq(S, (k - 1) * bufferSize + 1, k * bufferSize)]

RECURSIVE SumLen(_)
SumLen(cs) == IF cs = << >> THEN 0 ELSE Head(cs).len + SumLen(Tail(cs))

\* C2: within one streaming session onComplete fires at most once, already
\* when the producer calls complete() at most once in the session.
C2_OnCompleteOnce == fired.marks <= 1 => fired.n <= 1

\* C3: whenever onComplete is invoked, the Stream Completion Flag is set and
\* both the Playback Queue and the accumulation buffer are empty.
C3_CompleteOnlyWhenDrained ==
  fired.n > 0 => (fired.flag /\ fired.queued = 0 /\ fired.buffered = 0)

\* C4 (as claimed): after N full frames started from T0, scheduledTime is
\* T0 + N*D, however far the device clock has moved.
C4_ScheduledTimeExact ==
  run.full => scheduledTime = run.t0 + run.n * FrameTicks

\* C4 (amended): scheduledTime is T0 + N*D when the device clock had not
\* passed scheduledTime at any of the N starts, and greater when it had.
C4_ScheduledTimeUnlessLate ==
  run.full =>
    /\ ~run.late => scheduledTime = run.t0 + run.n * FrameTicks
    /\ run.late => scheduledTime > run.t0 + run.n * FrameTicks

\* two full frames started on time, at two readings of the device clock
C4_Witness == run.full /\ ~run.late /\ run.n >= 2 /\ now > run.t0

\* C5: frames are started in arrival order and no frame is given a device
\* start time earlier than that of a frame started before it.
C5_StartOrder == ~order.swapped /\ ~order.backward

\* C6: the frames addPCM16 has queued are the full bufferSize blocks of the
\* arrival-order concatenation of the ingested samples, and the accumulation
\* buffer is what remains, whatever the chunk boundaries and with several
\* addPCM16 calls in flight.
C6_FramesAreArrivalBlocks ==
  /\ emitted = Blocks(Stream)
  /\ processingBuffer =
       SubSeq(Stream, Len(Blocks(Stream)) * bufferSize + 1, Len(Stream))

\* two frames queued, one of them spanning two chunks, a call still in flight
C6_Witness ==
  /\ Len(emitted) >= 2
  /\ PendingChunks # << >>
  /\ \E k \in 1..Len(emitted) : \E c \in 1..Len(Processed) :
       emitted[k][1] < Processed[c].first
       /\ Processed[c].first <= emitted[k][bufferSize]

\* C7: when the ingested chunks hold an even number of bytes in total, the
\* samples appended number half the bytes.
C7_SamplesAreHalfTheBytes ==
  (PendingChunks = << >> /\ SumLen(Processed) % 2 = 0) =>
    2 * (Len(Flatten(emitted)) + Len(processingBuffer)) = SumLen(Processed)

\* C8: after complete() has flushed a partial frame, onComplete is not
\* invoked before that frame has been started and has ended.
C8_CompleteAfterFinalFrame == fired.n > 0 => ~fired.early

\* C9: after stop() followed by resume(), no frame built from bytes handed
\* to addPCM16 before the stop() is started.
C9_NoResidualFrames == ~order.stale

\* nothing of the streamer is left to run: no call parked at its await, no
\* one-shot timer, no frame queued or buffered, no source still to end
Quiescent ==
  /\ pending = << >>
  /\ timers = << >>
  /\ audioQueue = << >>
  /\ processingBuffer = << >>
  /\ ~onended

\* addPCM16() calls whose chunk has been converted
Converted == chunksIn - Len(PendingChunks)

\* every chunk so far held bufferSize / 2 bytes, or bufferSize bytes
QuarterFrameChunks == bytesIn = chunksIn * (bufferSize \div 2)
HalfFrameChunks == bytesIn = chunksIn * bufferSize

\* samples converted so far from chunks of bufferSize bytes, 2 bytes a sample
HalfFrameSamples == Converted * (bufferSize \div 2)

\* complete() was called once, after the third chunk, and flushed its samples
FlushedAfterThird ==
  /\ chunksIn = 3
  /\ fired.marks = 1
  /\ finalFrame.id >= 2 * bufferSize

\* the frame complete() flushed is queued, or has been started
FinalFrameKept ==
  \/ finalFrame.finish # -1
  \/ \E k \in 1..Len(audioQueue) : audioQueue[k][1] = finalFrame.id

FrameIds == {k * 2 * bufferSize : k \in 0..(MaxChunks - 1)}

\* the full frame that begins with sample f is in the Playback Queue
InQueue(f) ==
  \E k \in 1..Len(audioQueue) :
    Len(audioQueue[k]) = bufferSize /\ audioQueue[k][1] = f

\* the run's clock has ended before the next start is due: the one-shot
\* timer for scheduledTime lies beyond the last reading
BeyondClock ==
  /\ now = LiveClock
  /\ scheduledTime - TimerMargin > LiveClock

\* C20: every full frame placed in the Playback Queue is eventually started
\* (taken from the queue by a scheduling pass) with no call from the caller,
\* unless the clock of the run ends before its start is due.
C20_QueuedFrameStarts ==
  \A f \in FrameIds : InQueue(f) ~> (~InQueue(f) \/ BeyondClock)

\* a full frame that waited in the queue has been started by a later pass
C20_Witness ==
  /\ lastSource.id > 0
  /\ lastSource.finish - lastSource.start = FrameTicks
  /\ lastSource.start >= FrameTicks
  /\ audioQueue = << >>

\* C19: once complete() has been called and everything it left to run has
\* run, playback is idle and no poll timer is active (with no further ingest
\* or stop() nothing can change either any more).
C19_IdleAfterComplete ==
  (isStreamComplete /\ fired.marks > 0 /\ Quiescent)
    => (~isPlaying /\ ~checkInterval)


\* a step that is a scheduling pass run to its end
PassStep ==
  /\ pending # << >>
  /\ Head(pending).kind = "pass"
  /\ pending' = Tail(pending)

\* C21: at the end of a scheduling pass the one-shot timer is armed only when
\* a frame remains in the Playback Queue; with the queue empty and completion
\* not marked, whatever the accumulation buffer holds, the poll is
\* established instead.
C21_TimerOnlyForQueuedFrames ==
  [][PassStep =>
       /\ (timers' # timers) => (audioQueue' # << >>)
       /\ (audioQueue' = << >> /\ ~isStreamComplete) => checkInterval']_vars


\* a step in which complete() moves the partial frame into the queue
FlushStep ==
  /\ controls' = controls + 1
  /\ processingBuffer # << >>
  /\ audioQueue' = Append(audioQueue, processingBuffer)

\* the frame was in the queue before the step
Kept(frame) == \E j \in 1..Len(audioQueue) : audioQueue[j] = frame

\* C22: after every ingest, complete(), scheduling pass or stop() the
\* accumulation buffer is shorter than a frame, and every frame the step
\* left in the Playback Queue has exactly bufferSize samples unless it is
\* the final frame flushed by complete() (or was in the queue already).
C22_BufferBelowFrameSize ==
  [][/\ Len(processingBuffer') < bufferSize
     /\ \A k \in 1..Len(audioQueue') :
          \/ Len(audioQueue'[k]) = bufferSize
          \/ Kept(audioQueue'[k])
          \/ FlushStep /\ k = Len(audioQueue')]_vars

\* a full frame and the short frame flushed by complete() wait in the queue
\* while a later ingest has left a new partial frame in the buffer
C22_Witness ==
  /\ Len(audioQueue) >= 2
  /\ Len(audioQueue[1]) = bufferSize
  /\ Len(audioQueue[Len(audioQueue)]) < bufferSize
  /\ audioQueue[Len(audioQueue)][1] = finalFrame.id
  /\ processingBuffer # << >>


\* C23: over any sequence of addWorklet() and stop() calls on one streamer,
\* the module registered under a name is installed on the device at most
\* once (no second addModule() for a name already installed).
C23_InstalledOnce ==
  \A n \in WorkletNames : installed[n] <= 1

\* the audioContext() calls made with the id that hold a handle
Holding(id) ==
  {c \in AcquireIds : /\ acquire[c].id = id
                      /\ acquire[c].pc \in {"unlockOld", "unlockNew", "done"}}

\* C24: across any interleaving of audioContext() calls with one id, at most
\* one handle is constructed for the id and every call gets that handle.
C24_OneHandlePerId ==
  \A c, d \in Holding("audio-out") : acquire[c].ctx = acquire[d].ctx


\* the last frame started has not played to its end
StillToPlay == lastSource.id >= 0 /\ lastSource.finish > now

\* a step in which a replacement timer of stop() runs
ReplaceStep == gainTimers # << >> /\ gainTimers' = Tail(gainTimers)

\* C25: the delayed gain-stage replacement scheduled by stop() never
\* disconnects the gain stage while a frame started after that stop()
\* (following resume() or a new ingest) is connected to it and still has to
\* play.
C25_GainStageStaysConnected ==
  [][ReplaceStep => ~(wired /\ StillToPlay)]_vars

==========================================================================
